---- MODULE Spec2Model ----
(***************************************************************************)
(* A model of src/1_response_to_json.py: EnhancedJSONParser, the lenient   *)
(* recovery-parsing pipeline for LLM responses and the batch loop that     *)
(* drives it.                                                              *)
(*                                                                         *)
(* A text is a sequence of characters, each a string.  The regular         *)
(* expressions of the source are modelled by the scans they perform, the   *)
(* decoders (json.loads, ast.literal_eval) by recursive-descent parsers    *)
(* over the characters the model's texts are made of.                      *)
(***************************************************************************)
EXTENDS Integers, Sequences, FiniteSets, TLC

(***************************************************************************)
(* Characters                                                              *)
(***************************************************************************)
\* \s of the re module, restricted to the characters of the model
WS == {" ", "\n", "\t"}
\* \d of the re module
Digits == {"0", "1", "2", "3", "4", "5", "6", "7", "8", "9"}
Letters == {"a", "b", "c", "d", "e", "f", "g", "h", "i", "j", "k", "l", "m",
            "n", "o", "p", "q", "r", "s", "t", "u", "v", "w", "x", "y", "z",
            "A", "B", "C", "D", "E", "F", "G", "H", "I", "J", "K", "L", "M",
            "N", "O", "P", "Q", "R", "S", "T", "U", "V", "W", "X", "Y", "Z"}
\* \w of the re module
WordChars == Letters \cup Digits \cup {"_"}

IsWS(c) == c \in WS
IsDigit(c) == c \in Digits
IsWord(c) == c \in WordChars

\* text t holds pat at position i
StartsAt(t, i, pat) ==
    /\ i >= 1
    /\ i + Len(pat) - 1 <= Len(t)
    /\ \A j \in 1..Len(pat) : t[i + j - 1] = pat[j]

\* the first position >= i of t that is not whitespace (Len(t)+1 if none)
RECURSIVE SkipWS(_, _)
SkipWS(t, i) == IF i <= Len(t) /\ IsWS(t[i]) THEN SkipWS(t, i + 1) ELSE i

\* the first position >= i of t that holds no digit
RECURSIVE SkipDigits(_, _)
SkipDigits(t, i) == IF i <= Len(t) /\ IsDigit(t[i]) THEN SkipDigits(t, i + 1) ELSE i

\* the first position >= i of t that holds no word character
RECURSIVE SkipWord(_, _)
SkipWord(t, i) == IF i <= Len(t) /\ IsWord(t[i]) THEN SkipWord(t, i + 1) ELSE i

\* the first position >= i of t that holds c (Len(t)+1 if none)
RECURSIVE FindChar(_, _, _)
FindChar(t, i, c) == IF i <= Len(t) /\ t[i] # c THEN FindChar(t, i + 1, c) ELSE i

\* the first position >= i of t that holds a or b (Len(t)+1 if none)
RECURSIVE SkipNot2(_, _, _, _)
SkipNot2(t, i, a, b) ==
    IF i <= Len(t) /\ t[i] # a /\ t[i] # b THEN SkipNot2(t, i + 1, a, b) ELSE i

\* str.strip()
RECURSIVE LastNonWS(_, _)
LastNonWS(t, i) == IF i >= 1 /\ IsWS(t[i]) THEN LastNonWS(t, i - 1) ELSE i
Strip(t) == SubSeq(t, SkipWS(t, 1), LastNonWS(t, Len(t)))

(***************************************************************************)
(* clean_json_string: the sanitizer, one definition per re.sub             *)
(***************************************************************************)
\* the backquote character (the module's lexer cannot hold it in a string)
BQ == "BQ"
FenceJson == <<BQ, BQ, BQ, "j", "s", "o", "n">>
Fence == <<BQ, BQ, BQ>>
Slashes == <<"/", "/">>

\* re.sub of the opening fence, three backticks and json, with the whitespace after it
RECURSIVE SubFenceJson(_, _)
SubFenceJson(t, i) ==
    IF i > Len(t) THEN <<>>
    ELSE IF StartsAt(t, i, FenceJson)
         THEN SubFenceJson(t, SkipWS(t, i + Len(FenceJson)))
         ELSE <<t[i]>> \o SubFenceJson(t, i + 1)

\* re.sub of the closing fence: three backticks followed by nothing but whitespace
SubFenceEnd(t) ==
    LET r == LastNonWS(t, Len(t))
    IN IF StartsAt(t, r - 2, Fence) THEN SubSeq(t, 1, r - 3) ELSE t

\* re.sub(r"//.*$", "", text, flags=re.MULTILINE)
RECURSIVE SubComment(_, _)
SubComment(t, i) ==
    IF i > Len(t) THEN <<>>
    ELSE IF StartsAt(t, i, Slashes)
         THEN SubComment(t, FindChar(t, i, "\n"))
         ELSE <<t[i]>> \o SubComment(t, i + 1)

\* re.sub(r'(\d+)\s*\([^)]*\)', r'\1', text)
RECURSIVE SubParenNote(_, _)
SubParenNote(t, i) ==
    IF i > Len(t) THEN <<>>
    ELSE IF IsDigit(t[i])
         THEN LET d == SkipDigits(t, i)
                  w == SkipWS(t, d)
                  c == FindChar(t, w + 1, ")")
              IN IF w <= Len(t) /\ t[w] = "(" /\ c <= Len(t)
                 THEN SubSeq(t, i, d - 1) \o SubParenNote(t, c + 1)
                 ELSE SubSeq(t, i, d - 1) \o SubParenNote(t, d)
         ELSE <<t[i]>> \o SubParenNote(t, i + 1)

\* a sanitizer without the rule that quotes property names
SubQuoteKeys_off(t, i) == SubSeq(t, i, Len(t))

\* re.sub(r'(\w+):', r'"\1":', text)
RECURSIVE SubQuoteKeys(_, _)
SubQuoteKeys(t, i) ==
    IF i > Len(t) THEN <<>>
    ELSE IF IsWord(t[i])
         THEN LET e == SkipWord(t, i)
              IN IF e <= Len(t) /\ t[e] = ":"
                 THEN <<"\"">> \o SubSeq(t, i, e - 1) \o <<"\"", ":">>
                      \o SubQuoteKeys(t, e + 1)
                 ELSE SubSeq(t, i, e - 1) \o SubQuoteKeys(t, e)
         ELSE <<t[i]>> \o SubQuoteKeys(t, i + 1)

\* re.sub(r',\s*}', '}', text) and re.sub(r',\s*]', ']', text)
RECURSIVE SubTrailingComma(_, _, _)
SubTrailingComma(t, i, close) ==
    IF i > Len(t) THEN <<>>
    ELSE IF t[i] = ","
         THEN LET w == SkipWS(t, i + 1)
              IN IF w <= Len(t) /\ t[w] = close
                 THEN <<close>> \o SubTrailingComma(t, w + 1, close)
                 ELSE <<t[i]>> \o SubTrailingComma(t, i + 1, close)
         ELSE <<t[i]>> \o SubTrailingComma(t, i + 1, close)

clean_json_string(text) ==
    LET t1 == SubFenceJson(text, 1)
        t2 == SubFenceEnd(t1)
        t3 == SubComment(t2, 1)
        t4 == SubParenNote(t3, 1)
        t5 == SubQuoteKeys(t4, 1)
        t6 == SubTrailingComma(t5, 1, "}")
        t7 == SubTrailingComma(t6, 1, "]")
    IN Strip(t7)

(***************************************************************************)
(* extract_json_blocks: the candidates of three re.findall scans           *)
(***************************************************************************)
\* the end of the match of open [^oc]* (?: open [^oc]* close [^oc]* )* close
\* that starts at i (0 if there is none); p is the scan position
RECURSIVE FlatTail(_, _, _, _)
FlatTail(t, p, open, close) ==
    IF p > Len(t) THEN 0
    ELSE IF t[p] = close THEN p
    ELSE LET q == SkipNot2(t, p + 1, open, close)
         IN IF q <= Len(t) /\ t[q] = close
            THEN FlatTail(t, SkipNot2(t, q + 1, open, close), open, close)
            ELSE 0
FlatMatch(t, i, open, close) ==
    IF i <= Len(t) /\ t[i] = open
    THEN FlatTail(t, SkipNot2(t, i + 1, open, close), open, close)
    ELSE 0

\* re.findall of the one-level-nesting pattern (Methods 1 and 2)
RECURSIVE FindFlat(_, _, _, _)
FindFlat(t, i, open, close) ==
    IF i > Len(t) THEN <<>>
    ELSE LET e == FlatMatch(t, i, open, close)
         IN IF e > 0
            THEN <<SubSeq(t, i, e)>> \o FindFlat(t, e + 1, open, close)
            ELSE FindFlat(t, i + 1, open, close)

\* re.findall(r'\{.*?\}', text, re.DOTALL) (Method 3)
RECURSIVE FindLazy(_, _)
FindLazy(t, i) ==
    IF i > Len(t) THEN <<>>
    ELSE IF t[i] = "{"
         THEN LET e == FindChar(t, i + 1, "}")
              IN IF e <= Len(t)
                 THEN <<SubSeq(t, i, e)>> \o FindLazy(t, e + 1)
                 ELSE <<>>
         ELSE FindLazy(t, i + 1)

extract_json_blocks(text) ==
    FindFlat(text, 1, "{", "}") \o FindFlat(text, 1, "[", "]") \o FindLazy(text, 1)

(***************************************************************************)
(* Python values.  Every value is a record of one shape: k the type, n the *)
(* number of an int, float or bool, xs the characters of a str, the        *)
(* elements of a list, tuple or set, or the <<key, value>> pairs of a dict *)
(* in insertion order.                                                     *)
(***************************************************************************)
VNone == [k |-> "none", n |-> 0, xs |-> <<>>]
VBool(b) == [k |-> "bool", n |-> IF b THEN 1 ELSE 0, xs |-> <<>>]
VInt(n) == [k |-> "int", n |-> n, xs |-> <<>>]
VFloat(n) == [k |-> "float", n |-> n, xs |-> <<>>]
VStr(s) == [k |-> "str", n |-> 0, xs |-> s]
VList(xs) == [k |-> "list", n |-> 0, xs |-> xs]
VTuple(xs) == [k |-> "tuple", n |-> 0, xs |-> xs]
VSet(xs) == [k |-> "set", n |-> 0, xs |-> xs]
VDict(kv) == [k |-> "dict", n |-> 0, xs |-> kv]

NumKinds == {"int", "float", "bool"}

\* bool(v), the test of every "if parsed:" of the source
Truthy(v) ==
    CASE v.k = "none" -> FALSE
      [] v.k \in NumKinds -> v.n # 0
      [] OTHER -> Len(v.xs) > 0

\* a == b of Python
RECURSIVE PyEq(_, _)
PyEq(a, b) ==
    IF a.k \in NumKinds /\ b.k \in NumKinds THEN a.n = b.n
    ELSE IF a.k # b.k THEN FALSE
    ELSE IF a.k \in {"tuple", "list"}
         THEN /\ Len(a.xs) = Len(b.xs)
              /\ \A j \in 1..Len(a.xs) : PyEq(a.xs[j], b.xs[j])
    ELSE a = b

\* d[key] = val on the pairs of a dict
DictPut(kv, key, val) ==
    IF \E j \in 1..Len(kv) : PyEq(kv[j][1], key)
    THEN [j \in 1..Len(kv) |->
            IF PyEq(kv[j][1], key) THEN <<kv[j][1], val>> ELSE kv[j]]
    ELSE Append(kv, <<key, val>>)

DictHas(kv, key) == \E j \in 1..Len(kv) : PyEq(kv[j][1], key)
DictGet(kv, key) == kv[CHOOSE j \in 1..Len(kv) : PyEq(kv[j][1], key)][2]

(***************************************************************************)
(* json.loads: the strict decoder.  A parse result is [ok, v, pos]: pos    *)
(* the position after the value.  The texts of the model hold no sign, no  *)
(* fraction point, no backslash and no NaN or Infinity, and the parser has *)
(* no case for them.                                                       *)
(***************************************************************************)
PFail == [ok |-> FALSE, v |-> VNone, pos |-> 0]
POk(v, pos) == [ok |-> TRUE, v |-> v, pos |-> pos]

DigitVal(c) ==
    CASE c = "0" -> 0 [] c = "1" -> 1 [] c = "2" -> 2 [] c = "3" -> 3
      [] c = "4" -> 4 [] c = "5" -> 5 [] c = "6" -> 6 [] c = "7" -> 7
      [] c = "8" -> 8 [] c = "9" -> 9

\* int(t[i..j])
RECURSIVE NumVal(_, _, _)
NumVal(t, i, j) == IF j < i THEN 0 ELSE 10 * NumVal(t, i, j - 1) + DigitVal(t[j])

RECURSIVE Pow10(_)
Pow10(e) == IF e = 0 THEN 1 ELSE 10 * Pow10(e - 1)

\* the exponent part [eE]\d+ at position p of a number whose digits are t[i..p-1]
NumberAt(t, i, p) ==
    LET q == SkipDigits(t, p + 1)
    IN IF p <= Len(t) /\ t[p] \in {"e", "E"} /\ q > p + 1
       THEN POk(VFloat(NumVal(t, i, p - 1) * Pow10(NumVal(t, p + 1, q - 1))), q)
       ELSE POk(VInt(NumVal(t, i, p - 1)), p)

\* NUMBER_RE of json.scanner: (0|[1-9]\d*) and the exponent
JNumber(t, i) ==
    IF t[i] = "0" THEN NumberAt(t, i, i + 1) ELSE NumberAt(t, i, SkipDigits(t, i))

\* py_scanstring, strict: the characters up to the closing quote, none of
\* them a control character
JString(t, i) ==
    LET e == FindChar(t, i, "\"")
    IN IF e > Len(t) \/ \E j \in i..(e - 1) : t[j] \in {"\n", "\t"}
       THEN PFail
       ELSE POk(VStr(SubSeq(t, i, e - 1)), e + 1)

JNull == <<"n", "u", "l", "l">>
JTrue == <<"t", "r", "u", "e">>
JFalse == <<"f", "a", "l", "s", "e">>

RECURSIVE JValue(_, _)
RECURSIVE JMembers(_, _, _)
RECURSIVE JElements(_, _, _)

\* JSONObject after the opening brace: i is at the quote of a key
JMembers(t, i, kv) ==
    IF ~(i <= Len(t) /\ t[i] = "\"") THEN PFail
    ELSE LET key == JString(t, i + 1)
         IN IF ~key.ok THEN PFail
            ELSE LET c == SkipWS(t, key.pos)
                 IN IF ~(c <= Len(t) /\ t[c] = ":") THEN PFail
                    ELSE LET val == JValue(t, SkipWS(t, c + 1))
                         IN IF ~val.ok THEN PFail
                            ELSE LET n == SkipWS(t, val.pos)
                                     kv2 == DictPut(kv, key.v, val.v)
                                 IN IF n > Len(t) THEN PFail
                                    ELSE IF t[n] = "}" THEN POk(VDict(kv2), n + 1)
                                    ELSE IF t[n] = ","
                                         THEN JMembers(t, SkipWS(t, n + 1), kv2)
                                    ELSE PFail

\* JSONArray after the opening bracket: i is at the first character of a value
JElements(t, i, xs) ==
    LET val == JValue(t, i)
    IN IF ~val.ok THEN PFail
       ELSE LET n == SkipWS(t, val.pos)
            IN IF n > Len(t) THEN PFail
               ELSE IF t[n] = "]" THEN POk(VList(Append(xs, val.v)), n + 1)
               ELSE IF t[n] = "," THEN JElements(t, SkipWS(t, n + 1), Append(xs, val.v))
               ELSE PFail

\* scan_once
JValue(t, i) ==
    IF i > Len(t) THEN PFail
    ELSE IF t[i] = "\"" THEN JString(t, i + 1)
    ELSE IF t[i] = "{"
         THEN LET n == SkipWS(t, i + 1)
              IN IF n <= Len(t) /\ t[n] = "}" THEN POk(VDict(<<>>), n + 1)
                 ELSE JMembers(t, n, <<>>)
    ELSE IF t[i] = "["
         THEN LET n == SkipWS(t, i + 1)
              IN IF n <= Len(t) /\ t[n] = "]" THEN POk(VList(<<>>), n + 1)
                 ELSE JElements(t, n, <<>>)
    ELSE IF StartsAt(t, i, JNull) THEN POk(VNone, i + 4)
    ELSE IF StartsAt(t, i, JTrue) THEN POk(VBool(TRUE), i + 4)
    ELSE IF StartsAt(t, i, JFalse) THEN POk(VBool(FALSE), i + 5)
    ELSE IF IsDigit(t[i]) THEN JNumber(t, i)
    ELSE PFail

\* json.loads: one value, whitespace around it, nothing else
json_loads(t) ==
    LET r == JValue(t, SkipWS(t, 1))
    IN IF r.ok /\ SkipWS(t, r.pos) > Len(t) THEN r ELSE PFail

\* try_parse_json: the value, or None for a JSONDecodeError.  A decode
\* result is [st, v, msg]: st is "ok", "none" (None returned) or "raise"
DNone == [st |-> "none", v |-> VNone, msg |-> ""]
DOk(v) == [st |-> "ok", v |-> v, msg |-> ""]
DRaise(msg) == [st |-> "raise", v |-> VNone, msg |-> msg]

try_parse_json(json_str) ==
    LET r == json_loads(json_str)
    IN IF r.ok THEN DOk(r.v) ELSE DNone

(***************************************************************************)
(* ast.literal_eval: the lenient decoder.  The text is parsed as a Python  *)
(* expression (a SyntaxError wherever the text is not one), then the       *)
(* syntax tree is converted node by node, left to right (a ValueError at a *)
(* node that is no literal, a TypeError at an unhashable set element or    *)
(* dict key).  A node is a record of the shape of a value, with the kinds  *)
(* "name", "call" and "subscript" besides.  The texts of the model hold no *)
(* operator, no keyword, no string prefix, no backslash, no underscore, no *)
(* fraction point and no imaginary, hexadecimal, octal or binary literal,  *)
(* and the parser has no case for them.                                    *)
(***************************************************************************)
NName(s) == [k |-> "name", n |-> 0, xs |-> s]
NCall(f, args) == [k |-> "call", n |-> Len(args), xs |-> <<f>>]
NSubscript == [k |-> "subscript", n |-> 0, xs |-> <<>>]

Blank == {" ", "\t"}
RECURSIVE SkipBlank(_, _)
SkipBlank(t, i) == IF i <= Len(t) /\ t[i] \in Blank THEN SkipBlank(t, i + 1) ELSE i

\* the next token's position: inside brackets (d > 0) a line break is
\* whitespace, outside it ends the expression
PSkip(t, i, d) == IF d > 0 THEN SkipWS(t, i) ELSE SkipBlank(t, i)

\* the position of the next three quotes at or after i (Len(t)+1 if none)
RECURSIVE FindTriple(_, _)
FindTriple(t, i) ==
    IF i > Len(t) THEN i
    ELSE IF StartsAt(t, i, <<"\"", "\"", "\"">>) THEN i
    ELSE FindTriple(t, i + 1)

\* one string literal, i at its opening quote
PyString(t, i) ==
    IF StartsAt(t, i, <<"\"", "\"", "\"">>)
    THEN LET e == FindTriple(t, i + 3)
         IN IF e > Len(t) THEN PFail ELSE POk(VStr(SubSeq(t, i + 3, e - 1)), e + 3)
    ELSE LET e == FindChar(t, i + 1, "\"")
         IN IF e > Len(t) \/ \E j \in (i + 1)..(e - 1) : t[j] = "\n"
            THEN PFail
            ELSE POk(VStr(SubSeq(t, i + 1, e - 1)), e + 1)

\* adjacent string literals are one string
RECURSIVE PyStrings(_, _, _, _)
PyStrings(t, i, d, acc) ==
    LET r == PyString(t, i)
    IN IF ~r.ok THEN PFail
       ELSE LET n == PSkip(t, r.pos, d)
            IN IF n <= Len(t) /\ t[n] = "\""
               THEN PyStrings(t, n, d, acc \o r.v.xs)
               ELSE POk(VStr(acc \o r.v.xs), r.pos)

\* a number: digits, with an exponent a float; no letter may follow it and
\* an int has no leading zero unless it is zero
PyNumber(t, i) ==
    LET e == SkipDigits(t, i)
        r == NumberAt(t, i, e)
    IN IF r.pos <= Len(t) /\ IsWord(t[r.pos]) THEN PFail
       ELSE IF r.v.k = "int" /\ t[i] = "0" /\ r.v.n # 0 THEN PFail
       ELSE r

PyTrue == <<"T", "r", "u", "e">>
PyFalse == <<"F", "a", "l", "s", "e">>
PyNone == <<"N", "o", "n", "e">>

PyNameAt(t, i) ==
    LET e == SkipWord(t, i)
        w == SubSeq(t, i, e - 1)
    IN IF w = PyTrue THEN POk(VBool(TRUE), e)
       ELSE IF w = PyFalse THEN POk(VBool(FALSE), e)
       ELSE IF w = PyNone THEN POk(VNone, e)
       ELSE POk(NName(w), e)

\* The grammar's rules are the cases of one recursive operator, Py: rule
\* names the rule, i the position of its first token, d the bracket depth
\* and a the rule's other arguments
RECURSIVE Py(_, _, _, _, _)
NoArgs == [close |-> "", xs |-> <<>>, n |-> 0, had |-> FALSE, r |-> PFail]

\* one expression, i at its first token
PyExpr(t, i, d) == Py("expr", t, i, d, NoArgs)
\* comma-separated expressions up to the closing character ("" for the end
\* of the text); i is at a token.  The result's v is a list of the nodes,
\* its n the number of commas
PyItems(t, i, d, close, xs, commas) ==
    Py("items", t, i, d, [NoArgs EXCEPT !.close = close, !.xs = xs, !.n = commas])
\* key: value pairs up to the closing brace; i is at the first token of a key
PyPairs(t, i, d, kv) == Py("pairs", t, i, d, [NoArgs EXCEPT !.xs = kv])
\* the rest of one slice after its lower bound: up to two colons, each with
\* an optional expression; had: the slice holds something so far
PySliceTail(t, i, d, colons, had) ==
    Py("slice_tail", t, i, d, [NoArgs EXCEPT !.n = colons, !.had = had])
\* the slices of a subscript up to the closing bracket
PySlices(t, i, d) == Py("slices", t, i, d, NoArgs)
\* calls and subscripts after a primary whose node is r.v and that ends at r.pos
PyTrailers(t, r, d) == Py("trailers", t, r.pos, d, [NoArgs EXCEPT !.r = r])

AtClose(t, i, close) ==
    \/ close = "" /\ SkipWS(t, i) > Len(t)
    \/ close # "" /\ i <= Len(t) /\ t[i] = close

PyAtom(t, i, d) ==
    IF IsDigit(t[i]) THEN PyNumber(t, i)
    ELSE IF t[i] = "\"" THEN PyStrings(t, i, d, <<>>)
    ELSE IF IsWord(t[i]) THEN PyNameAt(t, i)
    ELSE IF t[i] = "["
         THEN LET a == PyItems(t, PSkip(t, i + 1, d + 1), d + 1, "]", <<>>, 0)
              IN IF a.ok THEN POk(VList(a.v.xs), a.pos) ELSE PFail
    ELSE IF t[i] = "("
         THEN LET a == PyItems(t, PSkip(t, i + 1, d + 1), d + 1, ")", <<>>, 0)
              IN IF ~a.ok THEN PFail
                 ELSE IF Len(a.v.xs) = 1 /\ a.v.n = 0 THEN POk(a.v.xs[1], a.pos)
                 ELSE POk(VTuple(a.v.xs), a.pos)
    ELSE IF t[i] = "{"
         THEN LET n == PSkip(t, i + 1, d + 1)
                  first == PyExpr(t, n, d + 1)
                  c == PSkip(t, first.pos, d + 1)
              IN IF n <= Len(t) /\ t[n] = "}" THEN POk(VDict(<<>>), n + 1)
                 ELSE IF ~first.ok THEN PFail
                 ELSE IF c <= Len(t) /\ t[c] = ":"
                      THEN PyPairs(t, n, d + 1, <<>>)
                 ELSE LET a == PyItems(t, n, d + 1, "}", <<>>, 0)
                      IN IF a.ok THEN POk(VSet(a.v.xs), a.pos) ELSE PFail
    ELSE PFail

Py(rule, t, i, d, a) ==
    CASE rule = "expr" ->
            IF i > Len(t) THEN PFail
            ELSE LET atom == PyAtom(t, i, d)
                 IN IF atom.ok THEN PyTrailers(t, atom, d) ELSE PFail
      [] rule = "items" ->
            IF AtClose(t, i, a.close)
            THEN POk([k |-> "list", n |-> a.n, xs |-> a.xs], i + 1)
            ELSE LET r == PyExpr(t, i, d)
                     n == PSkip(t, r.pos, d)
                 IN IF ~r.ok THEN PFail
                    ELSE IF n <= Len(t) /\ t[n] = ","
                         THEN PyItems(t, PSkip(t, n + 1, d), d, a.close,
                                      Append(a.xs, r.v), a.n + 1)
                    ELSE IF AtClose(t, n, a.close)
                         THEN POk([k |-> "list", n |-> a.n, xs |-> Append(a.xs, r.v)], n + 1)
                    ELSE PFail
      [] rule = "pairs" ->
            IF i <= Len(t) /\ t[i] = "}" THEN POk(VDict(a.xs), i + 1)
            ELSE LET key == PyExpr(t, i, d)
                     c == PSkip(t, key.pos, d)
                     val == PyExpr(t, PSkip(t, c + 1, d), d)
                     n == PSkip(t, val.pos, d)
                     kv2 == Append(a.xs, <<key.v, val.v>>)
                 IN IF ~key.ok THEN PFail
                    ELSE IF ~(c <= Len(t) /\ t[c] = ":") THEN PFail
                    ELSE IF ~val.ok THEN PFail
                    ELSE IF n > Len(t) THEN PFail
                    ELSE IF t[n] = "}" THEN POk(VDict(kv2), n + 1)
                    ELSE IF t[n] = "," THEN PyPairs(t, PSkip(t, n + 1, d), d, kv2)
                    ELSE PFail
      [] rule = "slice_tail" ->
            LET n == PSkip(t, i, d)
                m == PSkip(t, n + 1, d)
                r == PyExpr(t, m, d)
            IN IF n <= Len(t) /\ t[n] = ":" /\ a.n < 2
               THEN IF m <= Len(t) /\ t[m] \in {":", ",", "]"}
                    THEN PySliceTail(t, m, d, a.n + 1, TRUE)
                    ELSE IF ~r.ok THEN PFail
                    ELSE PySliceTail(t, r.pos, d, a.n + 1, TRUE)
               ELSE IF a.had THEN POk(NSubscript, n) ELSE PFail
      [] rule = "slices" ->
            LET x == PyExpr(t, i, d)
                r == IF i <= Len(t) /\ t[i] = ":" THEN PySliceTail(t, i, d, 0, FALSE)
                     ELSE IF ~x.ok THEN PFail
                     ELSE PySliceTail(t, x.pos, d, 0, TRUE)
                m == PSkip(t, r.pos + 1, d)
            IN IF ~r.ok \/ r.pos > Len(t) THEN PFail
               ELSE IF t[r.pos] = "]" THEN POk(NSubscript, r.pos + 1)
               ELSE IF t[r.pos] = ","
                    THEN IF m <= Len(t) /\ t[m] = "]" THEN POk(NSubscript, m + 1)
                         ELSE PySlices(t, m, d)
               ELSE PFail
      [] rule = "trailers" ->
            LET n == PSkip(t, i, d)
                args == PyItems(t, PSkip(t, n + 1, d + 1), d + 1, ")", <<>>, 0)
                sub == PySlices(t, PSkip(t, n + 1, d + 1), d + 1)
            IN IF n <= Len(t) /\ t[n] = "("
               THEN IF ~args.ok THEN PFail
                    ELSE PyTrailers(t, POk(NCall(a.r.v, args.v.xs), args.pos), d)
               ELSE IF n <= Len(t) /\ t[n] = "["
               THEN IF ~sub.ok THEN PFail
                    ELSE PyTrailers(t, POk(NSubscript, sub.pos), d)
               ELSE a.r

\* the first token after the blank lines at the start of the text: 0 if it is
\* indented (literal_eval strips the blanks of the first line only)
RECURSIVE FirstToken(_, _, _)
FirstToken(t, i, first) ==
    LET b == SkipBlank(t, i)
    IN IF b > Len(t) THEN b
       ELSE IF t[b] = "\n" THEN FirstToken(t, b + 1, FALSE)
       ELSE IF first \/ b = i THEN b
       ELSE 0

\* ast.parse(text, mode="eval"): one expression, or a tuple of them
PyParse(t) ==
    LET i == FirstToken(t, 1, TRUE)
        a == PyItems(t, i, 0, "", <<>>, 0)
    IN IF i = 0 \/ i > Len(t) \/ ~a.ok THEN PFail
       ELSE IF Len(a.v.xs) = 1 /\ a.v.n = 0 THEN POk(a.v.xs[1], a.pos)
       ELSE POk(VTuple(a.v.xs), a.pos)

\* hash(v): the type of the first part of v that cannot be hashed, "" if none
RECURSIVE Unhashable(_)
RECURSIVE UnhashableIn(_, _)
UnhashableIn(xs, j) ==
    IF j > Len(xs) THEN ""
    ELSE IF Unhashable(xs[j]) # "" THEN Unhashable(xs[j])
    ELSE UnhashableIn(xs, j + 1)
Unhashable(v) ==
    IF v.k \in {"list", "dict", "set"} THEN v.k
    ELSE IF v.k = "tuple" THEN UnhashableIn(v.xs, 1)
    ELSE ""

UnhashableMsg(kind) ==
    CASE kind = "list" -> "unhashable type: 'list'"
      [] kind = "dict" -> "unhashable type: 'dict'"
      [] kind = "set" -> "unhashable type: 'set'"

SetHas(xs, v) == \E j \in 1..Len(xs) : PyEq(xs[j], v)

\* _convert of ast.literal_eval
RECURSIVE PyConvert(_)
RECURSIVE ConvertSeq(_, _, _)
RECURSIVE ConvertSet(_, _, _)
RECURSIVE ConvertDict(_, _, _)

ConvertSeq(nodes, j, acc) ==
    IF j > Len(nodes) THEN DOk(VList(acc))
    ELSE LET r == PyConvert(nodes[j])
         IN IF r.st # "ok" THEN r ELSE ConvertSeq(nodes, j + 1, Append(acc, r.v))

ConvertSet(nodes, j, acc) ==
    IF j > Len(nodes) THEN DOk(VSet(acc))
    ELSE LET r == PyConvert(nodes[j])
         IN IF r.st # "ok" THEN r
            ELSE IF Unhashable(r.v) # "" THEN DRaise(UnhashableMsg(Unhashable(r.v)))
            ELSE ConvertSet(nodes, j + 1, IF SetHas(acc, r.v) THEN acc ELSE Append(acc, r.v))

ConvertDict(pairs, j, acc) ==
    IF j > Len(pairs) THEN DOk(VDict(acc))
    ELSE LET key == PyConvert(pairs[j][1])
             val == PyConvert(pairs[j][2])
         IN IF key.st # "ok" THEN key
            ELSE IF val.st # "ok" THEN val
            ELSE IF Unhashable(key.v) # "" THEN DRaise(UnhashableMsg(Unhashable(key.v)))
            ELSE ConvertDict(pairs, j + 1, DictPut(acc, key.v, val.v))

\* a ValueError (malformed node or string) is the st "value"
DValue == [st |-> "value", v |-> VNone, msg |-> ""]

PyConvert(node) ==
    CASE node.k \in {"int", "float", "str", "bool", "none"} -> DOk(node)
      [] node.k = "list" -> ConvertSeq(node.xs, 1, <<>>)
      [] node.k = "tuple" ->
            LET r == ConvertSeq(node.xs, 1, <<>>)
            IN IF r.st = "ok" THEN DOk(VTuple(r.v.xs)) ELSE r
      [] node.k = "set" -> ConvertSet(node.xs, 1, <<>>)
      [] node.k = "dict" -> ConvertDict(node.xs, 1, <<>>)
      [] node.k = "call" ->
            IF node.xs[1].k = "name" /\ node.xs[1].xs = <<"s", "e", "t">> /\ node.n = 0
            THEN DOk(VSet(<<>>)) ELSE DValue
      [] OTHER -> DValue

\* str.replace("'", '"')
ReplaceQuotes(t) == [j \in 1..Len(t) |-> IF t[j] = "'" THEN "\"" ELSE t[j]]

\* try_parse_with_ast: the value, None for a ValueError or a SyntaxError;
\* any other exception of literal_eval leaves the method
try_parse_with_ast(json_str) ==
    LET p == PyParse(ReplaceQuotes(json_str))
        r == PyConvert(p.v)
    IN IF ~p.ok THEN DNone
       ELSE IF r.st = "value" THEN DNone
       ELSE r

(***************************************************************************)
(* extract_scores_from_text: the score heuristic                           *)
(***************************************************************************)
UpperCase == <<"A", "B", "C", "D", "E", "F", "G", "H", "I", "J", "K", "L", "M",
               "N", "O", "P", "Q", "R", "S", "T", "U", "V", "W", "X", "Y", "Z">>
LowerCase == <<"a", "b", "c", "d", "e", "f", "g", "h", "i", "j", "k", "l", "m",
               "n", "o", "p", "q", "r", "s", "t", "u", "v", "w", "x", "y", "z">>
UpperSet == {UpperCase[j] : j \in 1..26}
\* str.lower()
LowerChar(c) ==
    IF c \in UpperSet
    THEN LowerCase[CHOOSE j \in 1..26 : UpperCase[j] = c]
    ELSE c
Lower(t) == [j \in 1..Len(t) |-> LowerChar(t[j])]

\* word in text
Contains(t, word) == \E j \in 1..Len(t) : StartsAt(t, j, word)

KwAttitude == <<"a", "t", "t", "i", "t", "u", "d", "e">>
KwLike == <<"l", "i", "k", "e">>
KwIntention == <<"i", "n", "t", "e", "n", "t", "i", "o", "n">>
KwPurchase == <<"p", "u", "r", "c", "h", "a", "s", "e">>

\* re.findall(r'\b(\d+)\b', text): the runs of word characters that are all
\* digits, as numbers
RECURSIVE FindNumbers(_, _)
FindNumbers(t, i) ==
    IF i > Len(t) THEN <<>>
    ELSE IF IsWord(t[i])
         THEN LET e == SkipWord(t, i)
              IN IF SkipDigits(t, i) = e
                 THEN <<NumVal(t, i, e - 1)>> \o FindNumbers(t, e)
                 ELSE FindNumbers(t, e)
         ELSE FindNumbers(t, i + 1)

\* the bounds of a score
MinScore == 1
MaxScore == 7
\* nums[:4] and nums[4:7]
AttitudeCount == 4
IntentionEnd == 7

\* [n for n in numbers if 1 <= n <= 7]
RECURSIVE InRange(_)
InRange(ns) ==
    IF ns = <<>> THEN <<>>
    ELSE IF MinScore <= Head(ns) /\ Head(ns) <= MaxScore
         THEN <<Head(ns)>> \o InRange(Tail(ns))
         ELSE InRange(Tail(ns))

Min(a, b) == IF a <= b THEN a ELSE b

\* a heuristic that scans the sanitized text instead of the text it is given
extract_scores_from_text_sanitized(text) ==
    LET clean == clean_json_string(text)
        nums == InRange(FindNumbers(clean, 1))
        low == Lower(clean)
    IN [ad_attitude_scores |->
            IF Contains(low, KwAttitude) \/ Contains(low, KwLike)
            THEN SubSeq(nums, 1, Min(AttitudeCount, Len(nums)))
            ELSE <<>>,
        purchase_intention_scores |->
            IF Contains(low, KwIntention) \/ Contains(low, KwPurchase)
            THEN SubSeq(nums, AttitudeCount + 1, Min(IntentionEnd, Len(nums)))
            ELSE <<>>]

\* the two sequences of scores: [ad_attitude_scores, purchase_intention_scores]
extract_scores_from_text(text) ==
    LET nums == InRange(FindNumbers(text, 1))
        low == Lower(text)
    IN [ad_attitude_scores |->
            IF Contains(low, KwAttitude) \/ Contains(low, KwLike)
            THEN SubSeq(nums, 1, Min(AttitudeCount, Len(nums)))
            ELSE <<>>,
        purchase_intention_scores |->
            IF Contains(low, KwIntention) \/ Contains(low, KwPurchase)
            THEN SubSeq(nums, AttitudeCount + 1, Min(IntentionEnd, Len(nums)))
            ELSE <<>>]

K_ad_type == <<"a", "d", "_", "t", "y", "p", "e">>
K_unknown == <<"u", "n", "k", "n", "o", "w", "n">>
K_ad_attitude_scores == <<"a", "d", "_", "a", "t", "t", "i", "t", "u", "d", "e", "_", "s", "c", "o", "r", "e", "s">>
K_purchase_intention_scores == <<"p", "u", "r", "c", "h", "a", "s", "e", "_", "i", "n", "t", "e", "n", "t", "i", "o", "n", "_", "s", "c", "o", "r", "e", "s">>

IntList(ns) == VList([j \in 1..Len(ns) |-> VInt(ns[j])])

\* a Method 4 that returns its record whether or not a score was found
heuristic_record_always(text) ==
    LET scores == extract_scores_from_text(text)
    IN DOk(VDict(<< <<VStr(K_ad_type), VStr(K_unknown)>>,
                    <<VStr(K_ad_attitude_scores), IntList(scores.ad_attitude_scores)>>,
                    <<VStr(K_purchase_intention_scores),
                      IntList(scores.purchase_intention_scores)>> >>))

\* Method 4 of parse_response: the record of the scores, or None
heuristic_record(text) ==
    LET scores == extract_scores_from_text(text)
    IN IF Len(scores.ad_attitude_scores) > 0 \/ Len(scores.purchase_intention_scores) > 0
       THEN DOk(VDict(<< <<VStr(K_ad_type), VStr(K_unknown)>>,
                         <<VStr(K_ad_attitude_scores), IntList(scores.ad_attitude_scores)>>,
                         <<VStr(K_purchase_intention_scores),
                           IntList(scores.purchase_intention_scores)>> >>))
       ELSE DNone

(***************************************************************************)
(* parse_response and process_file                                         *)
(***************************************************************************)
\* a test "if parsed is not None:", which lets an empty value through
Hit_not_none(d) == d.st = "ok" /\ d.v # VNone

\* "if parsed:" on the result of a decode: a value that is not falsy
Hit(d) == d.st = "ok" /\ Truthy(d.v)

\* a chain that runs both decoders on a block before it takes the next block:
\* the order parse_response does not have
NextOnMiss_interleaved(stage, k, n) ==
    CASE stage = "direct" -> IF n > 0 THEN <<"json_block", 1>> ELSE <<"heuristic", 0>>
      [] stage = "json_block" -> <<"ast_block", k>>
      [] stage = "ast_block" -> IF k < n THEN <<"json_block", k + 1>> ELSE <<"heuristic", 0>>
      [] stage = "heuristic" -> <<"return", 0>>

\* where parse_response goes after the strategy at <<stage, k>> yielded
\* nothing, n the number of candidate blocks: the two for loops over
\* json_blocks, one after the other, then the heuristic
NextOnMiss(stage, k, n) ==
    CASE stage = "direct" -> IF n > 0 THEN <<"json_block", 1>> ELSE <<"heuristic", 0>>
      [] stage = "json_block" -> IF k < n THEN <<"json_block", k + 1>> ELSE <<"ast_block", 1>>
      [] stage = "ast_block" -> IF k < n THEN <<"ast_block", k + 1>> ELSE <<"heuristic", 0>>
      [] stage = "heuristic" -> <<"return", 0>>

\* the message of the TypeError of {**metadata, **parsed_json}
NotAMapping(kind) ==
    CASE kind = "list" -> "'list' object is not a mapping"
      [] kind = "tuple" -> "'tuple' object is not a mapping"
      [] kind = "set" -> "'set' object is not a mapping"
      [] kind = "str" -> "'str' object is not a mapping"
      [] kind = "int" -> "'int' object is not a mapping"
      [] kind = "float" -> "'float' object is not a mapping"
      [] kind = "bool" -> "'bool' object is not a mapping"

\* {**metadata, **parsed_json}
RECURSIVE MergeInto(_, _, _)
MergeInto(kv, more, j) ==
    IF j > Len(more) THEN kv
    ELSE MergeInto(DictPut(kv, more[j][1], more[j][2]), more, j + 1)
\* a merge in which the metadata overrides the parsed record
Merge_metadata_wins(metadata, parsed_json) == VDict(MergeInto(parsed_json.xs, metadata.xs, 1))
Merge(metadata, parsed_json) == VDict(MergeInto(metadata.xs, parsed_json.xs, 1))

\* what process_file returns, (success, error_msg, result), for the outcome
\* of parse_response: a value, None, or an exception on its way out.
\* raised: an exception leaves process_file
Returned(success, error_msg, result) ==
    [success |-> success, error_msg |-> error_msg, result |-> result, raised |-> FALSE]

\* a process_file without its "except Exception": what is raised inside
\* leaves it
process_file_return_uncaught(outcome, metadata) ==
    IF outcome.st = "raise"
    THEN [Returned(FALSE, outcome.msg, VNone) EXCEPT !.raised = TRUE]
    ELSE IF Hit(outcome)
         THEN IF outcome.v.k = "dict"
              THEN Returned(TRUE, "Success", Merge(metadata, outcome.v))
              ELSE [Returned(FALSE, NotAMapping(outcome.v.k), VNone) EXCEPT !.raised = TRUE]
    ELSE Returned(FALSE, "No valid JSON found", VNone)

process_file_return(outcome, metadata) ==
    IF outcome.st = "raise" THEN Returned(FALSE, outcome.msg, VNone)
    ELSE IF Hit(outcome)
         THEN IF outcome.v.k = "dict"
              THEN Returned(TRUE, "Success", Merge(metadata, outcome.v))
              ELSE Returned(FALSE, NotAMapping(outcome.v.k), VNone)
    ELSE Returned(FALSE, "No valid JSON found", VNone)

(***************************************************************************)
(* json.dump of a result, and the batch loop                               *)
(***************************************************************************)
\* json.dump raises a TypeError: a set anywhere in the value, or a dict key
\* that is not a str, int, float, bool or None
RECURSIVE DumpRaises(_)
DumpRaises(v) ==
    CASE v.k = "set" -> TRUE
      [] v.k \in {"list", "tuple"} -> \E j \in 1..Len(v.xs) : DumpRaises(v.xs[j])
      [] v.k = "dict" ->
            \E j \in 1..Len(v.xs) :
                \/ v.xs[j][1].k \notin {"str", "int", "float", "bool", "none"}
                \/ DumpRaises(v.xs[j][2])
      [] OTHER -> FALSE

\* error_msg.split(':')[0] if ':' in error_msg else error_msg
error_type_of(error_msg) ==
    CASE error_msg = "unhashable type: 'list'" -> "unhashable type"
      [] error_msg = "unhashable type: 'dict'" -> "unhashable type"
      [] error_msg = "unhashable type: 'set'" -> "unhashable type"
      [] OTHER -> error_msg

\* an error file that keeps the sanitized text instead of the file's own
raw_output_cleaned(fs, j) == clean_json_string(fs[j].text)

\* what is written after "Raw Output:" in the error file of file i: the
\* response file, read again
raw_output(fs, j) == fs[j].text

(***************************************************************************)
(* The texts of the model: concatenations of fragments                     *)
(***************************************************************************)
\* the most fragments in the text of the one file of Spec
MaxFrags == 3
\* the most files in the directory of SpecBatch
MaxBatch == 3

Fragments ==
    { <<"{", "\"", "a", "\"", ":", "1", "}">>,
      <<"{", "'", "a", "'", ":", "1", "}">>,
      <<"{", "{", "}", ":", "1", "}">>,
      <<"{", "'", "a", "'", ":", "{", "1", "}", "}">>,
      <<"{", "\"", "a", "\"", ":", "\"", "a", ":", "\"", "}">>,
      <<"{", "}">>,
      <<"[", "1", "]">>,
      <<"l", "i", "k", "e", " ", "1">>,
      <<"x">>,
      <<"{">>,
      <<"}">>,
      <<",">>,
      <<" ">> }

RECURSIVE Texts(_)
Texts(n) ==
    IF n = 0 THEN {<<>>}
    ELSE LET shorter == Texts(n - 1)
         IN shorter \cup {t \o f : t \in shorter, f \in Fragments}

\* the most members in an object of BareObjects
MaxPairs == 2

\* objects as a response writes them: members with a word as key and an
\* integer as value, a parenthetical note after a value or none, the key bare
\* or double-quoted, the colon right after the key (with or without a blank
\* after it) or with blanks around it, a comma before the closing brace or
\* none, a json fence around the whole or none
BareKeys == {<<"a">>, <<"b">>, <<"q", "2">>}
BareValues == {[text |-> <<"3">>, n |-> 3], [text |-> <<"1", "0">>, n |-> 10]}
Notes == {<<>>, <<" ", "(", "N", "e", "u", "t", "r", "a", "l", ")">>,
          <<"(", "n", ":", " ", "7", ")">>}
TightColons == {<<":", " ">>, <<":">>}
LooseColon == <<" ", ":", " ">>

Members == {[key |-> key, value |-> v, note |-> note] :
               key \in BareKeys, v \in BareValues, note \in Notes}

RECURSIVE MemberSeqs(_)
MemberSeqs(n) ==
    IF n = 1 THEN {<<m>> : m \in Members}
    ELSE LET shorter == MemberSeqs(n - 1)
         IN shorter \cup
            {Append(ms, m) : ms \in {x \in shorter : Len(x) = n - 1}, m \in Members}

DistinctKeys(ms) == \A j, l \in 1..Len(ms) : ms[j].key = ms[l].key => j = l

BareObjects ==
    {[members |-> ms, quoted |-> q, colon |-> c, comma |-> tc, fence |-> f] :
        ms \in {x \in MemberSeqs(MaxPairs) : DistinctKeys(x)},
        q \in BOOLEAN, c \in TightColons \cup {LooseColon},
        tc \in BOOLEAN, f \in BOOLEAN}

RECURSIVE RenderMembers(_, _)
RenderMembers(o, j) ==
    IF j > Len(o.members) THEN <<>>
    ELSE LET m == o.members[j]
             key == IF o.quoted THEN <<"\"">> \o m.key \o <<"\"">> ELSE m.key
         IN (IF j > 1 THEN <<",", " ">> ELSE <<>>)
            \o key \o o.colon \o m.value.text \o m.note
            \o RenderMembers(o, j + 1)

RenderObject(o) ==
    LET inner == <<"{">> \o RenderMembers(o, 1)
                 \o (IF o.comma THEN <<",">> ELSE <<>>) \o <<"}">>
    IN IF o.fence THEN FenceJson \o <<"\n">> \o inner \o <<"\n">> \o Fence
       ELSE inner

\* the mapping an object states: each key to its integer
ObjectRecord(o) ==
    VDict([j \in 1..Len(o.members) |->
              <<VStr(o.members[j].key), VInt(o.members[j].value.n)>>])

\* each object as a response text, with the mapping it states; tight: every
\* key has its colon right after it
BareObjectCases ==
    {[text |-> RenderObject(o), record |-> ObjectRecord(o), tight |-> o.colon # LooseColon] :
        o \in BareObjects}

BareObjectTexts == {c.text : c \in BareObjectCases}
TightObjectTexts == {c.text : c \in {x \in BareObjectCases : x.tight}}

\* further whole responses: nested objects inside prose, quotes inside
\* strings, Python and JSON constants, colons inside strings, free text
Samples ==
    BareObjectTexts \cup
    { <<"x", "{", "\"", "a", "\"", ":", "{", "\"", "b", "\"", ":", "{", "\"", "c", "\"", ":", "1", "}", "}", "}">>,
      <<"x", " ", "{", "\"", "a", "\"", ":", "{", "\"", "b", "\"", ":", "1", "}", "}", " ", "y">>,
      <<"x", "[", "[", "[", "1", "]", "]", "]">>,
      <<"{", "'", "a", "'", ":", "\"", "b", "'", "c", "\"", "}">>,
      <<"{", "'", "a", "'", ":", " ", "t", "r", "u", "e", "}">>,
      <<"{", "'", "a", "'", ":", " ", "T", "r", "u", "e", "}">>,
      <<"{", "\"", "a", "\"", ":", "\"", "1", "2", ":", "3", "0", "\"", "}">>,
      <<"{", "\"", "a", ":", "b", "\"", ":", "1", "}">>,
      <<"p", "u", "r", "c", "h", "a", "s", "e", " ", "1", " ", "2", " ", "3", " ", "4", " ", "5", " ", "6", " ", "7">>,
      <<"l", "i", "k", "e", " ", "1", " ", "2", " ", "8", " ", "3", " ", "4", " ", "5">>,
      <<"p", "u", "r", "c", "h", "a", "s", "e", " ", "1", " ", "2", " ", "3">>,
      <<"L", "I", "K", "E", " ", "P", "u", "r", "c", "h", "a", "s", "e", " ", "1", " ", "(", "n", ":", " ", "7", ")", " ", "2", " ", "3", " ", "4", " ", "5", " ", "6", " ", "1">>,
      <<"i", "n", "t", "e", "n", "t", "i", "o", "n", " ", "1", " ", "2", " ", "3", " ", "4", " ", "5", " ", "6">>,
      <<"[", "]">>,
      <<"0">>,
      <<"n", "u", "l", "l">>,
      <<"f", "a", "l", "s", "e">>,
      <<"\"", "\"">>,
      <<"x", " ", "[", "]", " ", "l", "i", "k", "e", " ", "1">>,
      <<"S", "o", "r", "r", "y", ",", " ", "I", " ", "c", "a", "n", "n", "o", "t", " ", "a", "n", "s", "w", "e", "r", ".">> }

\* the texts of the files of a batch
BatchTexts ==
    { <<"{", "\"", "a", "\"", ":", "1", "}">>,
      <<"{", "{", "}", ":", "1", "}">>,
      <<"{", "'", "a", "'", ":", "{", "1", "}", "}">>,
      <<"l", "i", "k", "e", " ", "1">>,
      <<"x", " ", "a", ":">>,
      <<" ">> }

\* the metadata of a file: none, or one that shares a key with the record
Metas ==
    { VDict(<<>>),
      VDict(<< <<VStr(<<"a">>), VInt(7)>>,
               <<VStr(<<"m">>), VInt(2)>>,
               <<VStr(K_ad_type), VStr(<<"v">>)>> >>) }

File(text, meta) == [text |-> text, meta |-> meta]

RECURSIVE Batches(_)
Batches(n) ==
    IF n = 0 THEN {<<>>}
    ELSE LET shorter == Batches(n - 1)
         IN shorter \cup {Append(b, File(t, VDict(<<>>))) : b \in shorter, t \in BatchTexts}

(***************************************************************************)
(* State                                                                   *)
(***************************************************************************)
VARIABLES
    files,          \* the response files of the directory, in os.listdir order
    i,              \* the file the loop is at (0 before the first)
    pc,             \* where the run is
    k,              \* the candidate block the current for loop is at
    response_text,  \* process_file: the text read from the response file
    metadata,       \* process_file: the metadata read, {} if there is none
    cleaned_text,   \* parse_response: the sanitized text
    json_blocks,    \* parse_response: the candidate blocks
    outcome,        \* what parse_response returns or raises
    attempts,       \* history: the strategies tried on the current file
    ret,            \* what process_file returned
    stats,          \* self.stats
    json_files,     \* the .json files written, by file
    error_files     \* the _parse_error.txt files written, by file

vars == <<files, i, pc, k, response_text, metadata, cleaned_text, json_blocks,
          outcome, attempts, ret, stats, json_files, error_files>>

NoRet == Returned(FALSE, "", VNone)

InitRun ==
    /\ i = 0
    /\ pc = "loop"
    /\ k = 0
    /\ response_text = <<>>
    /\ metadata = VDict(<<>>)
    /\ cleaned_text = <<>>
    /\ json_blocks = <<>>
    /\ outcome = DNone
    /\ attempts = <<>>
    /\ ret = NoRet
    /\ stats = [total_processed |-> 0, successful |-> 0, failed |-> 0,
                error_types |-> <<>>]
    /\ json_files = <<>>
    /\ error_files = <<>>

\* one file, its text any text of at most MaxFrags fragments or a sample
Init ==
    /\ files \in {<<File(t, m)>> : t \in Texts(MaxFrags) \cup Samples, m \in Metas}
    /\ InitRun

\* a directory of at most MaxBatch files
InitBatch ==
    /\ files \in Batches(MaxBatch)
    /\ InitRun

locals == <<k, response_text, metadata, cleaned_text, json_blocks, outcome, attempts, ret>>
outputs == <<stats, json_files, error_files>>

Attempt(stage, j, d) ==
    [stage |-> stage, k |-> j,
     st |-> IF d.st = "raise" THEN "raise" ELSE IF Hit(d) THEN "hit" ELSE "miss"]

\* the move of parse_response after the decode d of the strategy at <<stage, j>>,
\* n the number of candidate blocks
AfterAttempt(stage, j, d, n) ==
    /\ attempts' = Append(attempts, Attempt(stage, j, d))
    /\ IF d.st = "raise" \/ Hit(d)
       THEN /\ outcome' = d
            /\ pc' = "return"
            /\ k' = 0
       ELSE /\ outcome' = DNone
            /\ pc' = NextOnMiss(stage, j, n)[1]
            /\ k' = NextOnMiss(stage, j, n)[2]

(***************************************************************************)
(* Actions                                                                 *)
(***************************************************************************)
\* the for loop takes the next file; process_file reads it and its metadata
LoopNext ==
    /\ pc = "loop"
    /\ i < Len(files)
    /\ i' = i + 1
    /\ stats' = [stats EXCEPT !.total_processed = @ + 1]
    /\ response_text' = files[i + 1].text
    /\ metadata' = files[i + 1].meta
    /\ pc' = "parse"
    /\ k' = 0
    /\ cleaned_text' = <<>>
    /\ json_blocks' = <<>>
    /\ outcome' = DNone
    /\ attempts' = <<>>
    /\ ret' = NoRet
    /\ UNCHANGED <<files, json_files, error_files>>

\* parse_response: None for a blank text, else the text is sanitized
Sanitize ==
    /\ pc = "parse"
    /\ IF Strip(response_text) = <<>>
       THEN /\ pc' = "return"
            /\ outcome' = DNone
            /\ UNCHANGED cleaned_text
       ELSE /\ pc' = "direct"
            /\ cleaned_text' = clean_json_string(response_text)
            /\ UNCHANGED outcome
    /\ UNCHANGED <<files, i, k, response_text, metadata, json_blocks, attempts, ret>>
    /\ UNCHANGED outputs

\* Method 1: the sanitized text as a whole; the blocks are located if it fails
TryDirect ==
    /\ pc = "direct"
    /\ LET d == try_parse_json(cleaned_text)
       IN /\ json_blocks' = IF Hit(d) THEN json_blocks
                            ELSE extract_json_blocks(cleaned_text)
          /\ AfterAttempt("direct", 0, d, Len(json_blocks'))
    /\ UNCHANGED <<files, i, response_text, metadata, cleaned_text, ret>>
    /\ UNCHANGED outputs

\* Method 2: the strict decoder on the block the loop is at
TryBlockJson ==
    /\ pc = "json_block"
    /\ AfterAttempt("json_block", k, try_parse_json(json_blocks[k]), Len(json_blocks))
    /\ UNCHANGED <<files, i, response_text, metadata, cleaned_text, json_blocks, ret>>
    /\ UNCHANGED outputs

\* Method 3: the lenient decoder on the block the loop is at
TryBlockAst ==
    /\ pc = "ast_block"
    /\ AfterAttempt("ast_block", k, try_parse_with_ast(json_blocks[k]), Len(json_blocks))
    /\ UNCHANGED <<files, i, response_text, metadata, cleaned_text, json_blocks, ret>>
    /\ UNCHANGED outputs

\* Method 4: the score heuristic on the raw text
TryHeuristic ==
    /\ pc = "heuristic"
    /\ AfterAttempt("heuristic", 0, heuristic_record(response_text), Len(json_blocks))
    /\ UNCHANGED <<files, i, response_text, metadata, cleaned_text, json_blocks, ret>>
    /\ UNCHANGED outputs

\* process_file returns
Return ==
    /\ pc = "return"
    /\ LET r == process_file_return(outcome, metadata)
       IN /\ ret' = r
          /\ pc' = IF r.raised THEN "abort" ELSE "returned"
    /\ UNCHANGED <<files, i, k, response_text, metadata, cleaned_text, json_blocks,
                   outcome, attempts>>
    /\ UNCHANGED outputs

Bump(counts, key) ==
    IF \E j \in 1..Len(counts) : counts[j][1] = key
    THEN [j \in 1..Len(counts) |->
            IF counts[j][1] = key THEN <<key, counts[j][2] + 1>> ELSE counts[j]]
    ELSE Append(counts, <<key, 1>>)

\* the loop body after process_file: the .json file is written, or the
\* failure is counted and the error file written.  A TypeError of json.dump
\* leaves the loop and the run
Record ==
    /\ pc = "returned"
    /\ IF ret.success
       THEN IF DumpRaises(ret.result)
            THEN /\ pc' = "abort"
                 /\ json_files' = Append(json_files, [file |-> i, state |-> "partial", v |-> VNone])
                 /\ UNCHANGED <<stats, error_files>>
            ELSE /\ pc' = "loop"
                 /\ json_files' = Append(json_files, [file |-> i, state |-> "written", v |-> ret.result])
                 /\ stats' = [stats EXCEPT !.successful = @ + 1]
                 /\ UNCHANGED error_files
       ELSE /\ pc' = "loop"
            /\ stats' = [stats EXCEPT !.failed = @ + 1,
                                      !.error_types = Bump(@, error_type_of(ret.error_msg))]
            /\ error_files' = Append(error_files,
                                     [file |-> i, error_msg |-> ret.error_msg,
                                      raw |-> raw_output(files, i)])
            /\ UNCHANGED json_files
    /\ UNCHANGED <<files, i, k, response_text, metadata, cleaned_text, json_blocks,
                   outcome, attempts, ret>>

\* the loop is over: the summary is logged
Finish ==
    /\ pc = "loop"
    /\ i = Len(files)
    /\ pc' = "done"
    /\ UNCHANGED <<files, i>>
    /\ UNCHANGED locals
    /\ UNCHANGED outputs

Next ==
    \/ LoopNext
    \/ Sanitize
    \/ TryDirect
    \/ TryBlockJson
    \/ TryBlockAst
    \/ TryHeuristic
    \/ Return
    \/ Record
    \/ Finish

Spec == Init /\ [][Next]_vars
SpecBatch == InitBatch /\ [][Next]_vars

(***************************************************************************)
(* Properties                                                              *)
(***************************************************************************)
\* C1: a raw text that is a well-formed JSON object with at least one member,
\* processed with no metadata, is returned as Success with the very record
\* json.loads gives for the untouched text
C1_ValidJsonPreserved ==
    LET direct == json_loads(response_text)
    IN (/\ pc = "returned"
        /\ metadata = VDict(<<>>)
        /\ direct.ok
        /\ direct.v.k = "dict"
        /\ Truthy(direct.v))
       => /\ ret.success
          /\ ret.result = direct.v

\* C2: the strategies tried on a file are, in order, a prefix of: the direct
\* decode, the strict decode of block 1..n, the lenient decode of block
\* 1..n, the heuristic; every strategy but the last tried yielded nothing, so
\* nothing is tried after a strategy that yielded a value
C2_StrategyOrder ==
    LET n == Len(json_blocks)
        schedule == <<[stage |-> "direct", k |-> 0]>>
                    \o [j \in 1..n |-> [stage |-> "json_block", k |-> j]]
                    \o [j \in 1..n |-> [stage |-> "ast_block", k |-> j]]
                    \o <<[stage |-> "heuristic", k |-> 0]>>
    IN /\ Len(attempts) <= Len(schedule)
       /\ \A j \in 1..Len(attempts) :
            /\ attempts[j].stage = schedule[j].stage
            /\ attempts[j].k = schedule[j].k
            /\ j < Len(attempts) => attempts[j].st = "miss"
       /\ (attempts # <<>> /\ attempts[Len(attempts)].st = "hit")
            => pc \in {"return", "returned", "loop", "abort", "done"}

\* C2, its case: the lenient decode of the second block or a later one
\* yielded the value, after every strict decode and the lenient decodes
\* before it yielded nothing
C2_LenientHitOnLaterBlock ==
    /\ attempts # <<>>
    /\ attempts[Len(attempts)].stage = "ast_block"
    /\ attempts[Len(attempts)].k >= 2
    /\ attempts[Len(attempts)].st = "hit"
    /\ pc = "returned"

\* C3: when the run over a directory has ended, successful + failed equals
\* total_processed
C3_CountersAddUp ==
    pc \in {"done", "abort"}
        => stats.successful + stats.failed = stats.total_processed

\* C4: when the run over a directory has ended, every file that comes after
\* a file whose processing failed has an outcome of its own, a .json file
\* written or an error file
C4_LaterFilesProcessed ==
    LET Written(j) == \E n \in 1..Len(json_files) :
                          json_files[n].file = j /\ json_files[n].state = "written"
        HasOutcome(j) == Written(j) \/ \E n \in 1..Len(error_files) : error_files[n].file = j
    IN pc \in {"done", "abort"}
        => \A j \in 1..Len(files) : \A later \in (j + 1)..Len(files) :
              (j <= i /\ ~Written(j)) => HasOutcome(later)

\* C5: the sanitized text is a fixed point of the sanitizer:
\* clean_json_string(clean_json_string(x)) = clean_json_string(x)
C5_SanitizeIdempotent ==
    pc = "direct" => clean_json_string(cleaned_text) = cleaned_text

\* C6: for a text that is not blank, the heuristic was invoked exactly if
\* the direct decode of the sanitized text, the strict decode of every block
\* and the lenient decode of every block all yielded no value
C6_HeuristicIffAllFailed ==
    LET cleaned == clean_json_string(response_text)
        blocks == extract_json_blocks(cleaned)
        all_failed ==
            /\ ~Hit(try_parse_json(cleaned))
            /\ \A b \in 1..Len(blocks) :
                  /\ ~Hit(try_parse_json(blocks[b]))
                  /\ ~Hit(try_parse_with_ast(blocks[b]))
        invoked == \E j \in 1..Len(attempts) : attempts[j].stage = "heuristic"
    IN (pc = "returned" /\ Strip(response_text) # <<>>) => (invoked <=> all_failed)

C8_SuccessSerializable ==
    (pc = "returned" /\ ret.success)
        => /\ ret.result.k = "dict"
           /\ ~DumpRaises(ret.result)

\* C9: no exception leaves process_file: what a decoder or the merge raises
\* comes back as a Failure with the exception's message and no result, and
\* the run is only ever left from the loop body, after a Success
C9_NeverRaises ==
    /\ ~ret.raised
    /\ pc = "abort" => ret.success
    /\ (pc = "returned" /\ outcome.st = "raise")
          => /\ ~ret.success
             /\ ret.error_msg = outcome.msg
             /\ ret.result = VNone
    /\ (pc = "returned" /\ ~ret.success) => ret.result = VNone

\* C9, its case: a decoder raised and process_file returned a Failure
C9_DecoderRaisedFailureReturned ==
    /\ pc = "returned"
    /\ outcome.st = "raise"
    /\ ~ret.success
    /\ attempts[Len(attempts)].st = "raise"

\* C10: a decode that yields no value is followed by the next strategy, and
\* the message returned is never the message of a decoder's exception
C10_DecoderErrorsLocal ==
    pc = "returned"
        => /\ \A j \in 1..Len(attempts) :
                (attempts[j].stage # "heuristic" /\ attempts[j].st # "hit")
                    => j < Len(attempts)
           /\ \A b \in 1..Len(json_blocks) :
                LET d == try_parse_with_ast(json_blocks[b])
                IN d.st = "raise" => ret.error_msg # d.msg

\* C11: the record returned with Success has the keys of the metadata and of
\* the parsed record and no other, each once; a key of the parsed record has
\* the parsed record's value, a key of the metadata alone the metadata's
C11_MergePolicy ==
    LET Keys(kv) == {kv[j][1] : j \in 1..Len(kv)}
        meta == metadata.xs
        parsed == outcome.v.xs
        merged == ret.result.xs
    IN (pc = "returned" /\ ret.success)
        => /\ Keys(merged) = Keys(meta) \cup Keys(parsed)
           /\ Cardinality(Keys(merged)) = Len(merged)
           /\ \A key \in Keys(parsed) : DictGet(merged, key) = DictGet(parsed, key)
           /\ \A key \in Keys(meta) \ Keys(parsed) : DictGet(merged, key) = DictGet(meta, key)

\* C11, its case: a Success whose metadata and parsed record share a key with
\* different values, and each has a key the other has not
C11_CollisionAndBothSides ==
    LET Keys(kv) == {kv[j][1] : j \in 1..Len(kv)}
        meta == metadata.xs
        parsed == outcome.v.xs
    IN /\ pc = "returned"
       /\ ret.success
       /\ \E key \in Keys(meta) \cap Keys(parsed) : DictGet(meta, key) # DictGet(parsed, key)
       /\ Keys(meta) \ Keys(parsed) # {}
       /\ Keys(parsed) \ Keys(meta) # {}

\* C12: when the run has ended, the error kind counted for a blank response
\* differs from the kind counted for a response that is not blank and on
\* which every strategy, the heuristic included, yielded nothing
C12_EmptyInputKindDistinct ==
    LET IsBlank(t) == Strip(t) = <<>>
        Missed(d) == d.st # "raise" /\ ~Hit(d)
        NothingRecovered(t) ==
            LET cleaned == clean_json_string(t)
                blocks == extract_json_blocks(cleaned)
            IN /\ ~IsBlank(t)
               /\ Missed(try_parse_json(cleaned))
               /\ \A b \in 1..Len(blocks) :
                     /\ Missed(try_parse_json(blocks[b]))
                     /\ Missed(try_parse_with_ast(blocks[b]))
               /\ Missed(heuristic_record(t))
    IN pc \in {"done", "abort"}
        => \A m, n \in 1..Len(error_files) :
              (IsBlank(error_files[m].raw) /\ NothingRecovered(error_files[n].raw))
                 => error_type_of(error_files[m].error_msg)
                       # error_type_of(error_files[n].error_msg)

\* C13: between two files and at the end of the run, every file taken has
\* been counted once: total_processed is the number of files taken, successful
\* + failed is that number too, successful and failed are the numbers of
\* .json and error files written, and the error_types counts add up to failed
C13_CountedOncePerFile ==
    LET RECURSIVE Sum(_, _)
        Sum(counts, j) == IF j > Len(counts) THEN 0 ELSE counts[j][2] + Sum(counts, j + 1)
    IN pc \in {"loop", "done", "abort"}
        => /\ stats.total_processed = i
           /\ stats.successful + stats.failed = i
           /\ stats.successful = Len(json_files)
           /\ stats.failed = Len(error_files)
           /\ Sum(stats.error_types, 1) = stats.failed

\* C14: every candidate block located in a sanitized text whose own brackets
\* are balanced is bracket-balanced: counting an opening brace or bracket up
\* and a closing one down, the depth is above zero inside the block and back
\* at zero exactly at its last character
C14_BlocksBalanced ==
    LET Opens(b, j) == Cardinality({p \in 1..j : b[p] \in {"{", "["}})
        Closes(b, j) == Cardinality({p \in 1..j : b[p] \in {"}", "]"}})
        Depth(b, j) == Opens(b, j) - Closes(b, j)
        text_balanced ==
            /\ \A j \in 1..Len(cleaned_text) : Depth(cleaned_text, j) >= 0
            /\ Depth(cleaned_text, Len(cleaned_text)) = 0
    IN text_balanced
        => \A n \in 1..Len(json_blocks) :
              LET b == json_blocks[n]
              IN /\ \A j \in 1..(Len(b) - 1) : Depth(b, j) > 0
                 /\ Depth(b, Len(b)) = 0

\* C15 as stated: a response that is an object with word keys and integer
\* values, however the colon is spaced, processed with no metadata, is
\* returned as Success with the mapping from each key to its integer
C15_BareObjectsParsed ==
    (pc = "returned" /\ metadata = VDict(<<>>) /\ response_text \in BareObjectTexts)
        => /\ ret.success
           /\ [text |-> response_text, record |-> ret.result,
               tight |-> response_text \in TightObjectTexts] \in BareObjectCases

\* C15 as the code has it: the same for the objects in which every key has
\* its colon right after it
C15_TightObjectsParsed ==
    (pc = "returned" /\ metadata = VDict(<<>>) /\ response_text \in TightObjectTexts)
        => /\ ret.success
           /\ [text |-> response_text, record |-> ret.result, tight |-> TRUE]
                 \in BareObjectCases

\* C15, its case: a Success for a fenced object of two members with bare
\* keys, a note after a value and a comma before the closing brace
C15_FencedNotedObjectParsed ==
    /\ pc = "returned"
    /\ metadata = VDict(<<>>)
    /\ response_text \in TightObjectTexts
    /\ ret.success
    /\ Len(ret.result.xs) = 2
    /\ StartsAt(response_text, 1, FenceJson)
    /\ \E p \in 1..Len(response_text) : response_text[p] = "("
    /\ \E p \in 1..(Len(response_text) - 1) :
          response_text[p] = "," /\ response_text[p + 1] = "}"
    /\ \A p \in 1..Len(response_text) : response_text[p] # "\""

\* C16: when the heuristic was reached, the response is returned as Success
\* exactly if one of the two score sequences extracted from the raw text is
\* not empty; the record then has ad_type "unknown" and the two sequences,
\* beside the keys of the metadata; else the Failure is "No valid JSON found"
C16_HeuristicOutcome ==
    LET scores == extract_scores_from_text(response_text)
        found == \/ scores.ad_attitude_scores # <<>>
                 \/ scores.purchase_intention_scores # <<>>
        keys == {VStr(K_ad_type), VStr(K_ad_attitude_scores),
                 VStr(K_purchase_intention_scores)}
        merged == ret.result.xs
    IN (pc = "returned" /\ attempts # <<>>
          /\ attempts[Len(attempts)].stage = "heuristic")
        => /\ ret.success <=> found
           /\ ret.success =>
                /\ {merged[j][1] : j \in 1..Len(merged)}
                      = keys \cup {metadata.xs[j][1] : j \in 1..Len(metadata.xs)}
                /\ DictGet(merged, VStr(K_ad_type)) = VStr(K_unknown)
                /\ DictGet(merged, VStr(K_ad_attitude_scores))
                      = IntList(scores.ad_attitude_scores)
                /\ DictGet(merged, VStr(K_purchase_intention_scores))
                      = IntList(scores.purchase_intention_scores)
           /\ ~ret.success =>
                /\ ret.error_msg = "No valid JSON found"
                /\ ret.result = VNone

\* C16, its case: the heuristic was reached and found intention scores and
\* no attitude score, and the record overrides the ad_type of the metadata
C16_HeuristicFoundOneSequence ==
    /\ pc = "returned"
    /\ attempts # <<>>
    /\ attempts[Len(attempts)].stage = "heuristic"
    /\ ret.success
    /\ extract_scores_from_text(response_text).ad_attitude_scores = <<>>
    /\ Len(extract_scores_from_text(response_text).purchase_intention_scores) = 3
    /\ DictHas(metadata.xs, VStr(K_ad_type))

\* C17: when the sanitized text holds, between its first opening brace and
\* its last closing brace, one well-formed object with a member, and other
\* text around it, that whole span is among the candidate blocks and the
\* record returned is the object it holds, merged into the metadata
C17_OutermostSpanLocated ==
    LET t == cleaned_text
        opens == {p \in 1..Len(t) : t[p] = "{"}
        closes == {p \in 1..Len(t) : t[p] = "}"}
        first == CHOOSE p \in opens : \A r \in opens : p <= r
        last == CHOOSE p \in closes : \A r \in closes : r <= p
        span == SubSeq(t, first, last)
        object == json_loads(span)
    IN (/\ pc = "returned"
        /\ opens # {} /\ closes # {}
        /\ first < last
        /\ Len(span) < Len(t)
        /\ object.ok
        /\ object.v.k = "dict"
        /\ Truthy(object.v))
       => /\ \E n \in 1..Len(json_blocks) : json_blocks[n] = span
          /\ ret.success
          /\ ret.result = Merge(metadata, object.v)

\* C18: a block for which the lenient decoder yields a value is a JSON value
\* once its single quotes are read as double quotes
C18_LenientAcceptsOnlyJson ==
    \A j \in 1..Len(attempts) :
        (attempts[j].stage = "ast_block" /\ attempts[j].st = "hit")
            => json_loads(ReplaceQuotes(json_blocks[attempts[j].k])).ok

\* C19: in a block handed to the lenient decoder, a single quote inside a
\* double-quoted string (after an odd number of double quotes and an even
\* number of single quotes) is still a single quote in the text that is parsed
C19_ApostropheKept ==
    LET Count(b, p, q) == Cardinality({r \in 1..(p - 1) : b[r] = q})
        InDoubleQuoted(b, p) == Count(b, p, "\"") % 2 = 1 /\ Count(b, p, "'") % 2 = 0
    IN \A j \in 1..Len(attempts) :
          attempts[j].stage = "ast_block"
             => LET b == json_blocks[attempts[j].k]
                IN \A p \in 1..Len(b) :
                      (b[p] = "'" /\ InDoubleQuoted(b, p)) => ReplaceQuotes(b)[p] = "'"

\* C20: in a response that is well-formed JSON every key is quoted and every
\* colon after a word is inside a string, so the rule that quotes property
\* names leaves the text as it is
C20_QuotingLeavesJsonAlone ==
    (pc = "direct" /\ json_loads(response_text).ok)
        => SubQuoteKeys(response_text, 1) = response_text

\* C21: the two score sequences are taken from the raw text of the response,
\* not from the sanitized one.  With nums the values, in order of position,
\* of the runs of digits that no word character touches and that lie in
\* 1..7: the attitude sequence is the first min(4, |nums|) of nums if the
\* text holds "attitude" or "like" in any case and is empty otherwise, the
\* intention sequence is the elements 5 to min(7, |nums|) of nums if the text
\* holds "intention" or "purchase" in any case and is empty otherwise, each
\* whatever the other is (stated of the text of every response when it has
\* been read); and a record the heuristic returns holds these two
C21_ScoresFromRawText ==
    LET t == response_text
        Occurs(w) == \E p \in 1..(Len(t) - Len(w) + 1) :
                        \A j \in 1..Len(w) : LowerChar(t[p + j - 1]) = w[j]
        End(s) == SkipDigits(t, s) - 1
        Token(s) == /\ IsDigit(t[s])
                    /\ s = 1 \/ ~IsWord(t[s - 1])
                    /\ End(s) = Len(t) \/ ~IsWord(t[End(s) + 1])
                    /\ NumVal(t, s, End(s)) \in 1..7
        tokens == SelectSeq([s \in 1..Len(t) |-> s], Token)
        n == Len(tokens)
        nums == [j \in 1..n |-> NumVal(t, tokens[j], End(tokens[j]))]
        attitude == IF Occurs(KwAttitude) \/ Occurs(KwLike)
                    THEN SubSeq(nums, 1, Min(4, n)) ELSE <<>>
        intention == IF Occurs(KwIntention) \/ Occurs(KwPurchase)
                     THEN SubSeq(nums, 5, Min(7, n)) ELSE <<>>
        scores == extract_scores_from_text(t)
    IN /\ pc = "parse" => /\ scores.ad_attitude_scores = attitude
                        /\ scores.purchase_intention_scores = intention
       /\ (pc = "returned" /\ attempts # <<>>
             /\ attempts[Len(attempts)].stage = "heuristic" /\ ret.success)
           => /\ DictGet(ret.result.xs, VStr(K_ad_attitude_scores)) = IntList(attitude)
              /\ DictGet(ret.result.xs, VStr(K_purchase_intention_scores))
                    = IntList(intention)

\* C21, its case: the heuristic returned four attitude scores and three
\* intention scores of a text with more than seven scores and a keyword in
\* capitals, and the sanitized text would have given other scores
C21_BothSequencesOfRawText ==
    LET scores == extract_scores_from_text(response_text)
        nums == InRange(FindNumbers(response_text, 1))
        clean == InRange(FindNumbers(cleaned_text, 1))
    IN /\ pc = "returned"
       /\ attempts # <<>>
       /\ attempts[Len(attempts)].stage = "heuristic"
       /\ ret.success
       /\ Len(nums) > 7
       /\ Len(scores.ad_attitude_scores) = 4
       /\ Len(scores.purchase_intention_scores) = 3
       /\ Contains(response_text, <<"L", "I", "K", "E">>)
       /\ SubSeq(clean, 1, 4) # scores.ad_attitude_scores
       /\ SubSeq(clean, 5, 7) # scores.purchase_intention_scores
       /\ DictGet(ret.result.xs, VStr(K_ad_attitude_scores))
             = IntList(scores.ad_attitude_scores)

\* C22: the candidate blocks of a sanitized text whose braces are balanced
\* are, in this order, objects by increasing start position, then arrays by
\* increasing start position, then the fallback candidates, each of them an
\* outermost span of the text from an opening brace to the closing brace that
\* matches it; and the decoders take the candidates in the order of the
\* sequence
C22_CandidateOrder ==
    LET t == cleaned_text
        b == json_blocks
        Depth(j) == Cardinality({p \in 1..j : t[p] = "{"})
                      - Cardinality({p \in 1..j : t[p] = "}"})
        text_balanced == /\ \A j \in 1..Len(t) : Depth(j) >= 0
                         /\ Depth(Len(t)) = 0
        At(j, p) == p + Len(b[j]) - 1 <= Len(t) /\ SubSeq(t, p, p + Len(b[j]) - 1) = b[j]
        InOrder(lo, hi) ==
            \A j \in lo..(hi - 1) :
                \E p, q \in 1..Len(t) : p < q /\ At(j, p) /\ At(j + 1, q)
        Outermost(j) ==
            \E p \in 1..Len(t) :
                /\ At(j, p)
                /\ Depth(p - 1) = 0
                /\ \A q \in p..(p + Len(b[j]) - 2) : Depth(q) > 0
                /\ Depth(p + Len(b[j]) - 1) = 0
        Stage(s) == SelectSeq(attempts, LAMBDA a : a.stage = s)
    IN (pc = "returned" /\ b # <<>> /\ text_balanced)
        => /\ \E n1 \in 0..Len(b) : \E n2 \in n1..Len(b) :
                /\ \A j \in 1..n1 : b[j][1] = "{" /\ \E p \in 1..Len(t) : At(j, p)
                /\ InOrder(1, n1)
                /\ \A j \in (n1 + 1)..n2 : b[j][1] = "[" /\ \E p \in 1..Len(t) : At(j, p)
                /\ InOrder(n1 + 1, n2)
                /\ \A j \in (n2 + 1)..Len(b) : b[j][1] = "{" /\ Outermost(j)
           /\ \A s \in {"json_block", "ast_block"} :
                \A j \in 1..Len(Stage(s)) : Stage(s)[j].k = j

\* C23: a decode that gives an empty or falsy value (an empty dict, list,
\* tuple, set or string, zero, false, None) counts as a miss like a decode
\* that fails, at each of the three decoding stages, and the chain is after it
\* where it is after a failure there: at the next candidate, or at the next
\* strategy after the last one.  What parse_response returns as a record is
\* never falsy.  A response is a Success exactly if the heuristic finds a score, and else
\* the Failure "No valid JSON found", unless a decode of the sanitized text
\* or of a candidate gives a value that is not falsy, or raises, or none of
\* them gives a value at all
C23_FalsyIsMiss ==
    LET Falsy(v) == v \in {VDict(<<>>), VList(<<>>), VTuple(<<>>), VSet(<<>>), VStr(<<>>),
                           VInt(0), VFloat(0), VBool(FALSE), VNone}
        n == Len(json_blocks)
        Decode(stage, j) ==
            CASE stage = "direct" -> try_parse_json(cleaned_text)
              [] stage = "json_block" -> try_parse_json(json_blocks[j])
              [] stage = "ast_block" -> try_parse_with_ast(json_blocks[j])
        NoValue(d) == d.st = "none" \/ (d.st = "ok" /\ Falsy(d.v))
        After(a) ==
            CASE a.stage = "direct" ->
                    IF n > 0 THEN <<"json_block", 1>> ELSE <<"heuristic", 0>>
              [] a.stage = "json_block" ->
                    IF a.k < n THEN <<"json_block", a.k + 1>> ELSE <<"ast_block", 1>>
              [] a.stage = "ast_block" ->
                    IF a.k < n THEN <<"ast_block", a.k + 1>> ELSE <<"heuristic", 0>>
        stages == {"direct", "json_block", "ast_block"}
        Candidates(stage) == IF stage = "direct" THEN {0} ELSE 1..n
        scores == extract_scores_from_text(response_text)
        last == attempts[Len(attempts)]
    IN /\ (/\ pc \in {"json_block", "ast_block", "heuristic", "return"}
           /\ attempts # <<>>
           /\ last.stage # "heuristic")
           => \/ last.st = "miss" /\ <<pc, k>> = After(last)
              \/ ~NoValue(Decode(last.stage, last.k))
       /\ (pc \in {"return", "returned"} /\ outcome.st = "ok") => ~Falsy(outcome.v)
       /\ (pc = "returned" /\ ret.success) => outcome.st = "ok" /\ ~Falsy(ret.result)
       /\ (pc = "returned" /\ attempts # <<>>)
           => \/ /\ ret.success <=> (\/ scores.ad_attitude_scores # <<>>
                                      \/ scores.purchase_intention_scores # <<>>)
                 /\ ~ret.success
                      => ret.error_msg = "No valid JSON found" /\ ret.result = VNone
              \/ \E s \in stages : \E j \in Candidates(s) : ~NoValue(Decode(s, j))
              \/ \A s \in stages : \A j \in Candidates(s) : Decode(s, j).st # "ok"

\* C23, its case: an empty value was decoded from the whole text, from a
\* candidate by the strict decoder and from a candidate by the lenient one,
\* the heuristic found no score and the response is a Failure
C23_EmptyObjectEndsInFailure ==
    /\ pc = "returned"
    /\ try_parse_json(cleaned_text) = DOk(VDict(<<>>))
    /\ \E j \in 1..Len(attempts) :
          /\ attempts[j].stage = "json_block"
          /\ try_parse_json(json_blocks[attempts[j].k]) = DOk(VDict(<<>>))
    /\ \E j \in 1..Len(attempts) :
          /\ attempts[j].stage = "ast_block"
          /\ try_parse_with_ast(json_blocks[attempts[j].k]) = DOk(VDict(<<>>))
    /\ attempts[Len(attempts)] = [stage |-> "heuristic", k |-> 0, st |-> "miss"]
    /\ ~ret.success
    /\ ret.error_msg = "No valid JSON found"
====
